---- MODULE Spec2Model ----
(***************************************************************************)
(* Model of saga_bot.py: the poll loop check_and_notify_loop with          *)
(* notify_new_offers, the known-offers and subscriber files, and the       *)
(* /start command handler.                                                 *)
(*                                                                         *)
(* Offer ids and chat ids are strings in the program.  They are modelled   *)
(* as sequences of decimal digits so that Python's sorted() on strings     *)
(* (code-point order, character by character) is computed and differs      *)
(* from the numeric order of the ids.                                      *)
(***************************************************************************)
EXTENDS Integers, Sequences, FiniteSets, TLC

\* ------------------------------------------------------------------ bounds
NumOffers == 2
NumChats == 2
MaxTerms == 2
MaxRows == 1

\* ------------------------------------------------------- program constants
\* 7 * 86400 seconds
CACHE_TTL == 604800

\* ------------------------------------------------------------ the universe
\* Offer ids that the listing page can show, as digit strings "42", "7", "3", ...
OfferUniverse == << <<4, 2>>, <<7>>, <<3>>, <<1, 0>>, <<7, 0>> >>
OfferIds == {OfferUniverse[i] : i \in 1..NumOffers}

\* Chat ids of the users that can send /start, as digit strings "5", "12", "8", ...
ChatUniverse == << <<5>>, <<1, 2>>, <<8>>, <<1, 1>>, <<2>> >>
ChatIds == {ChatUniverse[i] : i \in 1..NumChats}

\* Ages (seconds) the known-offers file can have when the process starts.
AgeValues == {0, CACHE_TTL, CACHE_TTL + 1}

\* ------------------------------------------------------------ pure helpers
Range(s) == {s[i] : i \in 1..Len(s)}

\* Python's str comparison a < b on digit strings.
RECURSIVE NumLess(_, _)
NumLess(a, b) ==
    IF Len(a) # Len(b) THEN Len(a) < Len(b)
    ELSE IF a = <<>> THEN FALSE
    ELSE IF Head(a) # Head(b) THEN Head(a) < Head(b)
    ELSE NumLess(Tail(a), Tail(b))

RECURSIVE StrLess(_, _)
StrLess(a, b) ==
    IF b = <<>> THEN FALSE
    ELSE IF a = <<>> THEN TRUE
    ELSE IF Head(a) # Head(b) THEN Head(a) < Head(b)
    ELSE StrLess(Tail(a), Tail(b))

\* sorted(S): the elements of S in ascending str order.
RECURSIVE sorted(_)
sorted(S) ==
    IF S = {} THEN <<>>
    ELSE LET m == CHOOSE x \in S : \A y \in S \ {x} : StrLess(x, y)
         IN  <<m>> \o sorted(S \ {m})

\* The lines a save writes for the set S (save_known_offers, save_subscribers).
FileLines(S) == sorted(S)

\* load_known_offers / load_subscribers: the set of the non-blank lines,
\* the empty set when the file does not exist.
LoadLines(exists, lines) == IF exists THEN Range(lines) ELSE {}

\* The diff with its test inverted: the known offers count as new.
DiffKnown(fetched, known) == {oid \in fetched : oid \in known}

\* The diff without its filter: every fetched offer counts as new.
DiffAll(fetched, known) == fetched

\* new = {oid: offer for oid, offer in offers.items() if oid not in seen}
Diff(fetched, known) == {oid \in fetched : oid \notin known}

\* seen = set(new) for seen.update(new).
ReplaceSeen(known, added) == added

\* seen.update(new)
UpdateSeen(known, added) == known \cup added

\* The TTL test with >= for >.
CacheExpiredAtTTL(a) == a >= CACHE_TTL

\* age > 7 * 86400
CacheExpired(a) == a > CACHE_TTL

\* None: no current offer / no chat.
None == <<>>

\* ------------------------------------------------------------------- state
VARIABLES
    knownExists,  \* KNOWN_OFFERS_PATH.exists()
    knownFile,    \* the lines of known_offers.txt
    age,          \* time.time() - st_mtime as the starting process measures it, 0 once measured
    subsFile,     \* the lines of subscribers.txt (no file: no lines)
    pc,           \* position of check_and_notify_loop
    seen,         \* the in-memory known set of the loop
    dropped,      \* ids of the file this start's TTL check deleted, until the first fetch_offers() ends
    interrupted,  \* offers some subscriber had received in the cycle the last process was
                  \* interrupted in, until this process's first fetch_offers() ends
    offers,       \* ids returned by the cycle's fetch_offers()
    new,          \* the cycle's new offers
    subscribers,  \* notify_new_offers' snapshot of the subscriber set
    pending,      \* new offers the for loop has not reached yet
    cur,          \* the offer whose message is being sent
    subsLeft,     \* subscribers the inner for loop has not reached yet
    hpc,          \* position of the /start handler
    hchat,        \* chat id of the /start being handled
    hpending,     \* current offers the handler has not sent yet
    faults,       \* what failed in the cycle (its error log), until the next cycle starts
    extracts,     \* per offer: parse_offer_details calls of the running notify_new_offers
    renders,      \* per offer: build_message calls of the running notify_new_offers
    attempts,     \* per (offer, chat): send_message calls of the running notify_new_offers
    sendLog,      \* whether each send_message for the current offer returned, in order
    sentOk,       \* offers that some send_message of the running notify_new_offers delivered
    writes,       \* times the cycle opened known_offers.txt for writing
    page,         \* the detail page a parse_offer_details call under study has fetched
    data,         \* the dict that call has built so far
    ppc           \* position of that call ("off": no call under study)

fileVars == <<knownExists, knownFile, age>>
loopVars == <<pc, seen, dropped, interrupted, offers, new, subscribers, pending, cur, subsLeft>>
handlerVars == <<hpc, hchat, hpending>>
notifyLog == <<extracts, renders, attempts, sendLog, sentOk>>
cycleLog == <<faults, writes, notifyLog>>
botVars == <<fileVars, subsFile, loopVars, handlerVars, cycleLog>>
parseVars == <<page, data, ppc>>
vars == <<botVars, parseVars>>

NoCounts == [oid \in OfferIds |-> 0]
NoAttempts == [p \in OfferIds \X ChatIds |-> 0]

\* ------------------------------------------- parse_offer_details, on pages
\* A detail page is what the three passes of parse_offer_details read of it:
\* its dl elements (the texts of the dt and of the dd elements of each), its
\* tables (the cell texts of each tr), and the description element (no
\* element: <<>>, else its text).  Texts are as get_text(strip=True) gives
\* them, "" for an element without text.
Labels == {"Zimmer", "Beschreibung"}
Texts == {"", "2", "3"}
DescTexts == {"", "hell"}

SeqsUpTo(S, n) == UNION {[1..k -> S] : k \in 0..n}

Dls == [dt : SeqsUpTo(Labels, MaxTerms), dd : SeqsUpTo(Texts, MaxTerms)]

\* A tr with one cell, with two (label and value) or with three.
Rows ==
    {<<"Zimmer">>, <<"Zimmer", "2", "3">>} \cup {<<k, v>> : k \in Labels, v \in Texts}

Pages ==
    [dls    : {<<>>} \cup {<<dl>> : dl \in Dls},
     tables : {<<>>} \cup {<<rows>> : rows \in SeqsUpTo(Rows, MaxRows)},
     desc   : {<<>>} \cup {<<t>> : t \in DescTexts}]

NoPage == [dls |-> <<>>, tables |-> <<>>, desc |-> <<>>]

\* data = {}
EmptyData == [k \in {} |-> ""]

\* data[k] = v
Put(d, k, v) == [x \in DOMAIN d \cup {k} |-> IF x = k THEN v ELSE d[x]]

\* StoreIf without the test of v.
StoreAlways(d, k, v) == Put(d, k, v)

\* if v: data[k] = v
StoreIf(d, k, v) == IF v # "" THEN Put(d, k, v) ELSE d

\* zip(dts, dds): pairs up to the end of the shorter.
Zip(dts, dds) ==
    [i \in 1..(IF Len(dts) < Len(dds) THEN Len(dts) ELSE Len(dds)) |-> <<dts[i], dds[i]>>]

\* The loop body `if v: data[k] = v` over (k, v) pairs in order.
RECURSIVE StoreAll(_, _)
StoreAll(d, pairs) ==
    IF Len(pairs) = 0
    THEN d
    ELSE StoreAll(StoreIf(d, pairs[1][1], pairs[1][2]), Tail(pairs))

\* for dl in soup.find_all('dl'): for dt, dd in zip(...): ...
RECURSIVE DlPass(_, _)
DlPass(d, dls) ==
    IF Len(dls) = 0
    THEN d
    ELSE DlPass(StoreAll(d, Zip(dls[1].dt, dls[1].dd)), Tail(dls))

\* The rows of a table with len(cols) == 2.
TwoCols(rows) == SelectSeq(rows, LAMBDA r : Len(r) = 2)

\* for table in soup.find_all('table'): for row in table.find_all('tr'): ...
RECURSIVE TablePass(_, _)
TablePass(d, tables) ==
    IF Len(tables) = 0
    THEN d
    ELSE TablePass(StoreAll(d, TwoCols(tables[1])), Tail(tables))

\* desc = soup.select_one(...); if desc: text = ...; if text: data['Beschreibung'] = text
DescPass(d, desc) ==
    IF Len(desc) > 0 /\ desc[1] # "" THEN Put(d, "Beschreibung", desc[1]) ELSE d

parse_offer_details(pg) ==
    DescPass(TablePass(DlPass(EmptyData, pg.dls), pg.tables), pg.desc)

\* State of a process that has just been started: nothing in memory; the two
\* files are whatever earlier runs of the program left behind.
Init ==
    /\ knownExists \in BOOLEAN
    /\ \E K \in SUBSET OfferIds :
           knownFile = IF knownExists THEN FileLines(K) ELSE <<>>
    /\ age \in IF knownExists THEN AgeValues ELSE {0}
    /\ \E S \in SUBSET ChatIds : subsFile = FileLines(S)
    /\ pc = "boot"
    /\ seen = {}
    /\ dropped = {}
    /\ interrupted = {}
    /\ offers = {}
    /\ new = {}
    /\ subscribers = {}
    /\ pending = {}
    /\ cur = None
    /\ subsLeft = {}
    /\ hpc = "idle"
    /\ hchat = None
    /\ hpending = {}
    /\ faults = {}
    /\ extracts = NoCounts
    /\ renders = NoCounts
    /\ attempts = NoAttempts
    /\ sendLog = <<>>
    /\ sentOk = {}
    /\ writes = 0
    /\ page = NoPage
    /\ data = EmptyData
    /\ ppc = "off"

\* Startup with load_known_offers() before the TTL check: the ids of a file
\* that is then deleted stay in the known set.
StartupLoadFirst ==
    /\ pc = "boot"
    /\ seen' = LoadLines(knownExists, knownFile)
    /\ IF knownExists /\ CacheExpired(age)
       THEN /\ knownExists' = FALSE
            /\ knownFile' = <<>>
            /\ dropped' = Range(knownFile)
       ELSE UNCHANGED <<knownExists, knownFile, dropped>>
    /\ age' = 0
    /\ pc' = "fetch"
    /\ UNCHANGED <<parseVars, subsFile, interrupted, offers, new, subscribers, pending, cur,
                   subsLeft, handlerVars, cycleLog>>

\* ---------------------------------------------------------- the poll loop
\* check_and_notify_loop before the while: TTL check, then load.  The age is
\* read here only; time passing within one run of the process is not modelled.
Startup ==
    /\ pc = "boot"
    /\ IF knownExists /\ CacheExpired(age)
       THEN /\ knownExists' = FALSE
            /\ knownFile' = <<>>
            /\ dropped' = Range(knownFile)
       ELSE UNCHANGED <<knownExists, knownFile, dropped>>
    /\ age' = 0
    /\ seen' = LoadLines(knownExists', knownFile')
    /\ pc' = "fetch"
    /\ UNCHANGED <<parseVars, subsFile, interrupted, offers, new, subscribers, pending, cur,
                   subsLeft, handlerVars, cycleLog>>

\* The startup code raises (stat, unlink or the read of the file fails), before
\* or after an expired file was deleted; it runs outside the loop's try, so the
\* loop's task ends before its first cycle.
StartupFail(deleted) ==
    /\ pc = "boot"
    /\ IF deleted /\ knownExists /\ CacheExpired(age)
       THEN /\ knownExists' = FALSE
            /\ knownFile' = <<>>
       ELSE UNCHANGED <<knownExists, knownFile>>
    /\ age' = 0
    /\ pc' = "dead"
    /\ UNCHANGED <<parseVars, subsFile, seen, dropped, interrupted, offers, new, subscribers, pending, cur,
                   subsLeft, handlerVars, cycleLog>>

\* The for loop left after its first offer.
AfterOfferBreak(rest) == "mark"

\* Where notify_new_offers goes once the offers in rest are left to do.
AfterOffer(rest) == IF rest = {} THEN "mark" ELSE "extract"

\* fetch_offers() raises with no except clause around the cycle body: the
\* exception ends the loop's task.
FetchFailUncaught ==
    /\ pc = "fetch"
    /\ pc' = "dead"
    /\ faults' = faults \cup {"fetch"}
    /\ dropped' = {}
    /\ interrupted' = {}
    /\ UNCHANGED <<parseVars, fileVars, subsFile, seen, offers, new, subscribers, pending,
                   cur, subsLeft, handlerVars, extracts, renders, attempts,
                   sendLog, sentOk, writes>>

\* FetchFail with the known set reset by the failure.
FetchFailResets ==
    /\ pc = "fetch"
    /\ faults' = faults \cup {"fetch"}
    /\ seen' = {}
    /\ dropped' = {}
    /\ interrupted' = {}
    /\ pc' = "sleep"
    /\ UNCHANGED <<parseVars, fileVars, subsFile, offers, new, subscribers, pending,
                   cur, subsLeft, handlerVars, writes, notifyLog>>

\* fetch_offers() raises: the cycle's except clause logs it.
FetchFail ==
    /\ pc = "fetch"
    /\ pc' = "sleep"
    /\ faults' = faults \cup {"fetch"}
    /\ dropped' = {}
    /\ interrupted' = {}
    /\ UNCHANGED <<parseVars, fileVars, subsFile, seen, offers, new, subscribers, pending,
                   cur, subsLeft, handlerVars, extracts, renders, attempts,
                   sendLog, sentOk, writes>>

\* FetchOk with notify_new_offers(new) not awaited: the cycle goes on to mark
\* the offers seen before any of them was processed.
FetchOkNoAwait(fetched) ==
    /\ pc = "fetch"
    /\ offers' = fetched
    /\ new' = Diff(fetched, seen)
    /\ dropped' = {}
    /\ interrupted' = {}
    /\ IF new' = {}
       THEN /\ pc' = "sleep"
            /\ UNCHANGED <<subscribers, pending>>
       ELSE /\ subscribers' = LoadLines(TRUE, subsFile)
            /\ pc' = "mark"
            /\ pending' = IF subscribers' = {} THEN {} ELSE new'
    /\ UNCHANGED <<parseVars, fileVars, subsFile, seen, cur, subsLeft, handlerVars, cycleLog>>

\* FetchOk with the new ids saved to the file before notify_new_offers runs.
FetchOkSaveFirst(fetched) ==
    /\ pc = "fetch"
    /\ offers' = fetched
    /\ new' = Diff(fetched, seen)
    /\ dropped' = {}
    /\ interrupted' = {}
    /\ IF new' = {}
       THEN /\ pc' = "sleep"
            /\ UNCHANGED <<subscribers, pending, knownExists, knownFile>>
       ELSE /\ knownExists' = TRUE
            /\ knownFile' = FileLines(seen \cup new')
            /\ subscribers' = LoadLines(TRUE, subsFile)
            /\ IF subscribers' = {}
               THEN /\ pc' = "mark"
                    /\ pending' = {}
               ELSE /\ pc' = "extract"
                    /\ pending' = new'
    /\ UNCHANGED <<parseVars, age, subsFile, seen, cur, subsLeft, handlerVars, cycleLog>>

\* FetchOk with the cycle ended when there is no subscriber: the new offers
\* are left to a later cycle.
FetchOkSkipEmpty(fetched) ==
    /\ pc = "fetch"
    /\ offers' = fetched
    /\ new' = Diff(fetched, seen)
    /\ dropped' = {}
    /\ interrupted' = {}
    /\ IF new' = {}
       THEN /\ pc' = "sleep"
            /\ UNCHANGED <<subscribers, pending>>
       ELSE /\ subscribers' = LoadLines(TRUE, subsFile)
            /\ IF subscribers' = {}
               THEN /\ pc' = "sleep"
                    /\ pending' = {}
               ELSE /\ pc' = "extract"
                    /\ pending' = new'
    /\ UNCHANGED <<parseVars, fileVars, subsFile, seen, cur, subsLeft, handlerVars, cycleLog>>

\* fetch_offers() returns the ids fetched; diff; when there are new offers,
\* notify_new_offers starts and loads the subscribers.
FetchOk(fetched) ==
    /\ pc = "fetch"
    /\ offers' = fetched
    /\ new' = Diff(fetched, seen)
    /\ dropped' = {}
    /\ interrupted' = {}
    /\ IF new' = {}
       THEN /\ pc' = "sleep"
            /\ UNCHANGED <<subscribers, pending>>
       ELSE /\ subscribers' = LoadLines(TRUE, subsFile)
            /\ IF subscribers' = {}
               THEN /\ pc' = "mark"
                    /\ pending' = {}
               ELSE /\ pc' = "extract"
                    /\ pending' = new'
    /\ UNCHANGED <<parseVars, fileVars, subsFile, seen, cur, subsLeft, handlerVars, cycleLog>>

\* fetch_offers() returns new offers and load_subscribers() raises in
\* notify_new_offers: the cycle's except clause logs it, nothing is marked seen.
LoadSubsFail(fetched) ==
    /\ pc = "fetch"
    /\ Diff(fetched, seen) # {}
    /\ offers' = fetched
    /\ new' = Diff(fetched, seen)
    /\ faults' = faults \cup {"load"}
    /\ dropped' = {}
    /\ interrupted' = {}
    /\ pc' = "sleep"
    /\ UNCHANGED <<parseVars, fileVars, subsFile, seen, subscribers, pending, cur, subsLeft,
                   handlerVars, writes, notifyLog>>

\* Extract with the try around the for loop instead of inside it: an
\* extraction that raises ends notify_new_offers.
ExtractUnisolated(oid, ok) ==
    /\ pc = "extract"
    /\ oid \in pending
    /\ extracts' = [extracts EXCEPT ![oid] = @ + 1]
    /\ sendLog' = <<>>
    /\ IF ok
       THEN /\ renders' = [renders EXCEPT ![oid] = @ + 1]
            /\ cur' = oid
            /\ subsLeft' = subscribers
            /\ pending' = pending \ {oid}
            /\ pc' = "send"
            /\ UNCHANGED faults
       ELSE /\ faults' = faults \cup {"extract"}
            /\ pending' = {}
            /\ pc' = "mark"
            /\ UNCHANGED <<renders, cur, subsLeft>>
    /\ UNCHANGED <<parseVars, fileVars, subsFile, seen, dropped, interrupted, offers, new, subscribers,
                   handlerVars, attempts, sentOk, writes>>

\* Next offer of the for loop: parse_offer_details raises (ok = FALSE, logged
\* by the outer except of the loop body), or returns and build_message renders.
Extract(oid, ok) ==
    /\ pc = "extract"
    /\ oid \in pending
    /\ extracts' = [extracts EXCEPT ![oid] = @ + 1]
    /\ sendLog' = <<>>
    /\ IF ok
       THEN /\ renders' = [renders EXCEPT ![oid] = @ + 1]
            /\ cur' = oid
            /\ subsLeft' = subscribers
            /\ pending' = pending \ {oid}
            /\ pc' = "send"
            /\ UNCHANGED faults
       ELSE /\ faults' = faults \cup {"extract"}
            /\ pending' = pending \ {oid}
            /\ pc' = AfterOffer(pending')
            /\ UNCHANGED <<renders, cur, subsLeft>>
    /\ UNCHANGED <<parseVars, fileVars, subsFile, seen, dropped, interrupted, offers, new, subscribers,
                   handlerVars, attempts, sentOk, writes>>

\* Send without the inner try: a send that raises ends the offer's sends and
\* is logged by the outer except of the loop body.
SendUnisolated(chat, ok) ==
    /\ pc = "send"
    /\ chat \in subsLeft
    /\ attempts' = [attempts EXCEPT ![<<cur, chat>>] = @ + 1]
    /\ sendLog' = Append(sendLog, ok)
    /\ faults' = IF ok THEN faults ELSE faults \cup {"send"}
    /\ sentOk' = IF ok THEN sentOk \cup {cur} ELSE sentOk
    /\ subsLeft' = IF ok THEN subsLeft \ {chat} ELSE {}
    /\ IF subsLeft' = {}
       THEN /\ cur' = None
            /\ pc' = AfterOffer(pending)
       ELSE UNCHANGED <<cur, pc>>
    /\ UNCHANGED <<parseVars, fileVars, subsFile, seen, dropped, interrupted, offers, new, subscribers,
                   pending, handlerVars, extracts, renders, writes>>

\* One iteration of the inner for loop: send_message to chat returns or raises
\* (ok = FALSE, logged by the inner except).
Send(chat, ok) ==
    /\ pc = "send"
    /\ chat \in subsLeft
    /\ attempts' = [attempts EXCEPT ![<<cur, chat>>] = @ + 1]
    /\ sendLog' = Append(sendLog, ok)
    /\ faults' = IF ok THEN faults ELSE faults \cup {"send"}
    /\ sentOk' = IF ok THEN sentOk \cup {cur} ELSE sentOk
    /\ subsLeft' = subsLeft \ {chat}
    /\ IF subsLeft' = {}
       THEN /\ cur' = None
            /\ pc' = AfterOffer(pending)
       ELSE UNCHANGED <<cur, pc>>
    /\ UNCHANGED <<parseVars, fileVars, subsFile, seen, dropped, interrupted, offers, new, subscribers,
                   pending, handlerVars, extracts, renders, writes>>

\* Outcomes of save_known_offers: it returns; open() raises and the file is
\* left as it was; a write raises after open() truncated the file.
SaveOutcomes == {"ok", "open_fails", "write_fails"}

\* MarkSeen with save_known_offers before seen.update(new): a save that
\* raises leaves the known set without the new ids.
MarkSeenAfterSave(outcome) ==
    /\ pc = "mark"
    /\ seen' = IF outcome = "ok" THEN UpdateSeen(seen, new) ELSE seen
    /\ CASE outcome = "ok" ->
              /\ knownExists' = TRUE
              /\ knownFile' = FileLines(seen')
              /\ writes' = writes + 1
              /\ UNCHANGED <<age, faults>>
         [] outcome = "open_fails" ->
              /\ faults' = faults \cup {"store"}
              /\ UNCHANGED <<fileVars, writes>>
         [] outcome = "write_fails" ->
              /\ faults' = faults \cup {"store"}
              /\ knownExists' = TRUE
              /\ \E k \in 0..(Cardinality(seen \cup new) - 1) :
                     knownFile' = SubSeq(FileLines(seen \cup new), 1, k)
              /\ writes' = writes + 1
              /\ UNCHANGED age
    /\ pc' = "sleep"
    /\ extracts' = NoCounts
    /\ renders' = NoCounts
    /\ attempts' = NoAttempts
    /\ sendLog' = <<>>
    /\ sentOk' = {}
    /\ subscribers' = {}
    /\ UNCHANGED <<parseVars, subsFile, dropped, interrupted, offers, new, pending, cur, subsLeft, handlerVars>>

\* MarkSeen with only the offers that reached a subscriber marked seen, so
\* that the others are new again in the next cycle.
MarkSeenDelivered(outcome) ==
    /\ pc = "mark"
    /\ seen' = UpdateSeen(seen, sentOk)
    /\ CASE outcome = "ok" ->
              /\ knownExists' = TRUE
              /\ knownFile' = FileLines(seen')
              /\ writes' = writes + 1
              /\ UNCHANGED <<age, faults>>
         [] outcome = "open_fails" ->
              /\ faults' = faults \cup {"store"}
              /\ UNCHANGED <<fileVars, writes>>
         [] outcome = "write_fails" ->
              /\ faults' = faults \cup {"store"}
              /\ knownExists' = TRUE
              /\ \E k \in 0..(Cardinality(seen \cup sentOk)) :
                     knownFile' = SubSeq(FileLines(seen \cup sentOk), 1, k)
              /\ writes' = writes + 1
              /\ UNCHANGED age
    /\ pc' = "sleep"
    /\ extracts' = NoCounts
    /\ renders' = NoCounts
    /\ attempts' = NoAttempts
    /\ sendLog' = <<>>
    /\ sentOk' = {}
    /\ subscribers' = {}
    /\ UNCHANGED <<parseVars, subsFile, dropped, interrupted, offers, new, pending, cur, subsLeft, handlerVars>>

\* notify_new_offers has returned: seen.update(new); save_known_offers(seen).
\* An exception of the save is logged by the cycle's except clause.
MarkSeen(outcome) ==
    /\ pc = "mark"
    /\ seen' = UpdateSeen(seen, new)
    /\ CASE outcome = "ok" ->
              /\ knownExists' = TRUE
              /\ knownFile' = FileLines(seen')
              /\ writes' = writes + 1
              /\ UNCHANGED <<age, faults>>
         [] outcome = "open_fails" ->
              /\ faults' = faults \cup {"store"}
              /\ UNCHANGED <<fileVars, writes>>
         [] outcome = "write_fails" ->
              /\ faults' = faults \cup {"store"}
              /\ knownExists' = TRUE
              /\ \E k \in 0..(Cardinality(seen') - 1) :
                     knownFile' = SubSeq(FileLines(seen'), 1, k)
              /\ writes' = writes + 1
              /\ UNCHANGED age
    /\ pc' = "sleep"
    /\ extracts' = NoCounts
    /\ renders' = NoCounts
    /\ attempts' = NoAttempts
    /\ sendLog' = <<>>
    /\ sentOk' = {}
    /\ subscribers' = {}
    /\ UNCHANGED <<parseVars, subsFile, dropped, interrupted, offers, new, pending, cur, subsLeft, handlerVars>>

\* await asyncio.sleep(INTERVAL) returns: the next cycle starts.
Sleep ==
    /\ pc = "sleep"
    /\ pc' = "fetch"
    /\ offers' = {}
    /\ new' = {}
    /\ faults' = {}
    /\ writes' = 0
    /\ UNCHANGED <<parseVars, fileVars, subsFile, seen, dropped, interrupted, subscribers, pending, cur,
                   subsLeft, handlerVars, notifyLog>>

\* ------------------------------------------------------ the /start handler
\* Positions of start() at its first await: the reply_text that acknowledges a
\* new subscription, or the one that tells the chat it is subscribed already.
AckPositions == {"ack_new", "ack_known"}

\* StartCmd without the membership test: the chat id is written again.
StartCmdAlwaysAdd(chat) ==
    /\ hpc = "idle"
    /\ subsFile' = Append(subsFile, chat)
    /\ hpc' = IF chat \in LoadLines(TRUE, subsFile) THEN "ack_known" ELSE "ack_new"
    /\ hchat' = chat
    /\ UNCHANGED <<parseVars, fileVars, loopVars, hpending, cycleLog>>

\* StartCmd with an await between load_subscribers and save_subscribers: the
\* set that is saved was loaded before other subscriptions were saved.
StartCmdStaleLoad(chat) ==
    /\ hpc = "idle"
    /\ LET subs == LoadLines(TRUE, subsFile)
       IN  IF chat \notin subs
           THEN /\ \E stale \in SUBSET subs : subsFile' = FileLines(stale \cup {chat})
                /\ hpc' = "ack_new"
           ELSE /\ hpc' = "ack_known"
                /\ UNCHANGED subsFile
    /\ hchat' = chat
    /\ UNCHANGED <<parseVars, fileVars, loopVars, hpending, cycleLog>>

\* StartCmd with the new chat id appended to the file as it is.
StartCmdAppend(chat) ==
    /\ hpc = "idle"
    /\ LET subs == LoadLines(TRUE, subsFile)
       IN  IF chat \notin subs
           THEN /\ subsFile' = Append(subsFile, chat)
                /\ hpc' = "ack_new"
           ELSE /\ hpc' = "ack_known"
                /\ UNCHANGED subsFile
    /\ hchat' = chat
    /\ UNCHANGED <<parseVars, fileVars, loopVars, hpending, cycleLog>>

\* start(): load the subscribers; when the chat is not in the set, add it and
\* save_subscribers (no await in between); then await the acknowledgement.
\* load_subscribers and save_subscribers are taken to return.
StartCmd(chat) ==
    /\ hpc = "idle"
    /\ LET subs == LoadLines(TRUE, subsFile)
       IN  IF chat \notin subs
           THEN /\ subsFile' = FileLines(subs \cup {chat})
                /\ hpc' = "ack_new"
           ELSE /\ hpc' = "ack_known"
                /\ UNCHANGED subsFile
    /\ hchat' = chat
    /\ UNCHANGED <<parseVars, fileVars, loopVars, hpending, cycleLog>>

\* start(): the acknowledgement is sent and fetch_offers() (which does not
\* await) returns the current offers; with none the handler
\* replies and returns, else it goes on to send every one of them.
HandlerFetch(fetched) ==
    /\ hpc \in AckPositions
    /\ IF fetched = {}
       THEN /\ hpc' = "idle"
            /\ hchat' = None
            /\ hpending' = {}
       ELSE /\ hpc' = "send"
            /\ hpending' = fetched
            /\ UNCHANGED hchat
    /\ UNCHANGED <<parseVars, fileVars, subsFile, loopVars, cycleLog>>

\* start(): next current offer: parse, render and send it to the chat.
HandlerSend(oid) ==
    /\ hpc = "send"
    /\ oid \in hpending
    /\ hpending' = hpending \ {oid}
    /\ IF hpending' = {}
       THEN /\ hpc' = "idle"
            /\ hchat' = None
       ELSE UNCHANGED <<hpc, hchat>>
    /\ UNCHANGED <<parseVars, fileVars, subsFile, loopVars, cycleLog>>

\* start(): reply_text, fetch_offers, parse_offer_details or send_message
\* raises; nothing in start() catches it and the handler ends.
HandlerAbort ==
    /\ hpc \in AckPositions \cup {"send"}
    /\ hpc' = "idle"
    /\ hchat' = None
    /\ hpending' = {}
    /\ UNCHANGED <<parseVars, fileVars, subsFile, loopVars, cycleLog>>

\* ------------------------------------------------------------ the process
\* The process is interrupted and run_bot() starts it again: memory is lost,
\* the files stay, and the known-offers file has grown no younger.
Restart ==
    /\ pc # "boot"
    /\ pc' = "boot"
    /\ age' \in IF knownExists THEN AgeValues ELSE {0}
    /\ seen' = {}
    /\ dropped' = {}
    /\ interrupted' = IF pc \in {"extract", "send", "mark"} THEN sentOk ELSE interrupted
    /\ offers' = {}
    /\ new' = {}
    /\ subscribers' = {}
    /\ pending' = {}
    /\ cur' = None
    /\ subsLeft' = {}
    /\ hpc' = "idle"
    /\ hchat' = None
    /\ hpending' = {}
    /\ faults' = {}
    /\ extracts' = NoCounts
    /\ renders' = NoCounts
    /\ attempts' = NoAttempts
    /\ sendLog' = <<>>
    /\ sentOk' = {}
    /\ writes' = 0
    /\ UNCHANGED <<parseVars, knownExists, knownFile, subsFile>>

LoopStep ==
    \/ Startup
    \/ \E deleted \in BOOLEAN : StartupFail(deleted)
    \/ FetchFail
    \/ \E fetched \in SUBSET OfferIds : FetchOk(fetched)
    \/ \E fetched \in SUBSET OfferIds : LoadSubsFail(fetched)
    \/ \E oid \in OfferIds, ok \in BOOLEAN : Extract(oid, ok)
    \/ \E chat \in ChatIds, ok \in BOOLEAN : Send(chat, ok)
    \/ \E outcome \in SaveOutcomes : MarkSeen(outcome)
    \/ Sleep

HandlerStep ==
    \/ \E chat \in ChatIds : StartCmd(chat)
    \/ \E fetched \in SUBSET OfferIds : HandlerFetch(fetched)
    \/ \E oid \in OfferIds : HandlerSend(oid)
    \/ HandlerAbort

Next == LoopStep \/ HandlerStep \/ Restart

Spec == Init /\ [][Next]_vars

\* The event loop resumes the loop's task whenever what it awaits is done, and
\* every request and send of the loop ends (timeouts) by returning or raising.
FairSpec == Spec /\ WF_vars(LoopStep)

\* --------------------------------------- parse_offer_details under study
\* A call of parse_offer_details has fetched its page (any page of Pages) and
\* starts with data = {}; the bot itself is not running.
ParseInit ==
    /\ knownExists = FALSE
    /\ knownFile = <<>>
    /\ age = 0
    /\ subsFile = <<>>
    /\ pc = "boot"
    /\ seen = {}
    /\ dropped = {}
    /\ interrupted = {}
    /\ offers = {}
    /\ new = {}
    /\ subscribers = {}
    /\ pending = {}
    /\ cur = None
    /\ subsLeft = {}
    /\ hpc = "idle"
    /\ hchat = None
    /\ hpending = {}
    /\ faults = {}
    /\ extracts = NoCounts
    /\ renders = NoCounts
    /\ attempts = NoAttempts
    /\ sendLog = <<>>
    /\ sentOk = {}
    /\ writes = 0
    /\ page \in Pages
    /\ data = EmptyData
    /\ ppc = "dl"

\* The pass over the definition lists.
ParseDl ==
    /\ ppc = "dl"
    /\ data' = DlPass(data, page.dls)
    /\ ppc' = "table"
    /\ UNCHANGED <<botVars, page>>

\* The pass over the tables.
ParseTable ==
    /\ ppc = "table"
    /\ data' = TablePass(data, page.tables)
    /\ ppc' = "desc"
    /\ UNCHANGED <<botVars, page>>

\* The description block; return data.
ParseDesc ==
    /\ ppc = "desc"
    /\ data' = DescPass(data, page.desc)
    /\ ppc' = "done"
    /\ UNCHANGED <<botVars, page>>

ParseNext == ParseDl \/ ParseTable \/ ParseDesc

ParseSpec == ParseInit /\ [][ParseNext]_vars

TypeOK ==
    /\ knownExists \in BOOLEAN
    /\ Range(knownFile) \subseteq OfferIds
    /\ age \in AgeValues
    /\ Range(subsFile) \subseteq ChatIds
    /\ pc \in {"boot", "dead", "fetch", "extract", "send", "mark", "sleep"}
    /\ seen \subseteq OfferIds
    /\ dropped \subseteq OfferIds
    /\ interrupted \subseteq OfferIds
    /\ new \subseteq offers
    /\ offers \subseteq OfferIds
    /\ pending \subseteq new
    /\ subsLeft \subseteq subscribers
    /\ subscribers \subseteq ChatIds
    /\ cur \in OfferIds \cup {None}
    /\ hpc \in {"idle", "send"} \cup AckPositions
    /\ hchat \in ChatIds \cup {None}
    /\ hpending \subseteq OfferIds
    /\ page \in Pages \cup {NoPage}
    /\ DOMAIN data \subseteq Labels
    /\ ppc \in {"off", "dl", "table", "desc", "done"}

\* ================================================================== claims
\* A step of the loop in which fetch_offers() returned.
FetchReturned == pc = "fetch" /\ pc' \in {"sleep", "extract", "mark"} /\ "fetch" \notin faults'

\* No extraction, render or send is recorded.
NothingNotified ==
    /\ extracts = NoCounts
    /\ renders = NoCounts
    /\ attempts = NoAttempts
    /\ sentOk = {}

\* C1: when the listing fetch returns only ids that are in the known set, the
\* cycle ends with that step: no extraction, no render, no send, the known set
\* unchanged and the known-offers file neither changed nor opened for writing.
C1_Idempotent ==
    [][(FetchReturned /\ offers' \subseteq seen) =>
          /\ pc' = "sleep"
          /\ NothingNotified'
          /\ writes' = 0
          /\ UNCHANGED <<seen, knownExists, knownFile>>]_vars

\* A cycle that fetched known ids only has ended.
C1_Witness ==
    /\ pc = "sleep"
    /\ faults = {}
    /\ offers # {}
    /\ offers \subseteq seen
    /\ new = {}
    /\ writes = 0
    /\ knownExists
    /\ Range(knownFile) = seen

\* C2 as claimed: when notify_new_offers has returned, every new id has had
\* exactly one extraction, one render and one send attempt per subscriber, for
\* any subscriber set.
C2_Original ==
    pc = "mark" =>
        \A oid \in new :
            /\ extracts[oid] = 1
            /\ renders[oid] = 1
            /\ \A chat \in subscribers : attempts[<<oid, chat>>] = 1

\* C2 (amended): when notify_new_offers has returned with a non-empty set of
\* loaded subscribers, every new id has had exactly one extraction; if it
\* succeeded, one render and one send attempt per loaded subscriber, else no
\* render and no send.  With no subscribers nothing is extracted, rendered or
\* sent.  Ids that are not new get nothing.
C2_Completeness ==
    pc = "mark" =>
        /\ \A oid \in new :
               IF subscribers = {}
               THEN extracts[oid] = 0 /\ renders[oid] = 0
               ELSE /\ extracts[oid] = 1
                    /\ renders[oid] \in {0, 1}
                    /\ \A chat \in ChatIds :
                           attempts[<<oid, chat>>] =
                               IF chat \in subscribers /\ renders[oid] = 1 THEN 1 ELSE 0
        /\ "extract" \notin faults => \A oid \in new : renders[oid] = extracts[oid]
        /\ \A oid \in OfferIds \ new :
               /\ extracts[oid] = 0
               /\ renders[oid] = 0
               /\ \A chat \in ChatIds : attempts[<<oid, chat>>] = 0

\* One known id, two fetched, two subscribers: the new one was extracted,
\* rendered and sent to both.
C2_Witness ==
    /\ pc = "mark"
    /\ Cardinality(seen) = 1
    /\ offers = OfferIds
    /\ Cardinality(new) = NumOffers - 1
    /\ Cardinality(subscribers) >= 2
    /\ \A oid \in new :
           /\ extracts[oid] = 1
           /\ renders[oid] = 1
           /\ \A chat \in subscribers : attempts[<<oid, chat>>] = 1

\* C3: a send that fails stops neither the sends to the other subscribers nor
\* the remaining offers, and notify_new_offers returns normally: while an
\* offer is being sent, exactly the subscribers not yet tried are left; when
\* notify_new_offers has returned after a failed send, every new offer was
\* extracted and every rendered offer was tried once for every subscriber; and
\* the cycle went on to mark the offers seen.
C3_DeliveryIsolation ==
    /\ pc = "send" =>
           /\ subsLeft = {chat \in subscribers : attempts[<<cur, chat>>] = 0}
           /\ Len(sendLog) = Cardinality(subscribers \ subsLeft)
           /\ \A chat \in subscribers : attempts[<<cur, chat>>] <= 1
    /\ (pc = "mark" /\ "send" \in faults) =>
           \A oid \in new :
               /\ extracts[oid] = 1
               /\ renders[oid] = 1 =>
                      \A chat \in subscribers : attempts[<<oid, chat>>] = 1
    /\ (pc = "sleep" /\ "send" \in faults) => new \subseteq seen

\* The first send of the last offer failed and every later one was made.
C3_Witness ==
    /\ pc = "mark"
    /\ Len(sendLog) = NumChats
    /\ ~sendLog[1]
    /\ \A i \in 2..Len(sendLog) : sendLog[i]
    /\ Cardinality(new) = NumOffers
    /\ \A oid \in new : \A chat \in subscribers : attempts[<<oid, chat>>] = 1

\* C4: an extraction that fails costs only its own offer: no render and no
\* send for an offer whose extraction failed, every other new offer is
\* extracted, rendered and sent to every subscriber, and the cycle goes on to
\* mark the offers seen.
C4_ExtractionIsolation ==
    /\ (pc \in {"extract", "send", "mark"} /\ "extract" \in faults) =>
           \A oid \in new :
               (extracts[oid] = 1 /\ renders[oid] = 0 /\ oid # cur) =>
                   /\ oid \notin sentOk
                   /\ \A chat \in ChatIds : attempts[<<oid, chat>>] = 0
    /\ (pc = "mark" /\ "extract" \in faults) =>
           \A oid \in new :
               /\ extracts[oid] = 1
               /\ renders[oid] = 1 =>
                      \A chat \in subscribers : attempts[<<oid, chat>>] = 1
    /\ (pc = "sleep" /\ "extract" \in faults) => new \subseteq seen

\* After one offer's extraction failed, another offer was rendered and sent.
C4_Witness ==
    /\ pc = "mark"
    /\ "extract" \in faults
    /\ \E bad \in new, good \in new :
           /\ renders[bad] = 0
           /\ renders[good] = 1
           /\ good \in sentOk
           /\ \A chat \in subscribers : attempts[<<good, chat>>] = 1
    /\ Len(sendLog) = Cardinality(subscribers)

\* C5: once the loop runs it has no terminal state: a running cycle always
\* comes back to the sleep, whatever failed in it, and after the sleep another
\* cycle always starts (a restart of the process, which starts the loop anew,
\* aside), and no step of a cycle ends the loop's task.
C5_SchedulerLiveness ==
    /\ (pc \in {"fetch", "extract", "send", "mark"}) ~> (pc \in {"sleep", "boot"})
    /\ (pc = "sleep") ~> (pc \in {"fetch", "boot"})
    /\ [][(pc # "dead" /\ pc' = "dead") => pc = "boot"]_vars

\* The loop sleeps after a cycle in which an extraction, a send and the save failed.
C5_Witness ==
    /\ pc = "sleep"
    /\ {"extract", "send", "store"} \subseteq faults

\* A step of the loop that runs the startup code to its end.
StartupStep == pc = "boot" /\ pc' = "fetch"

\* C6: at process start a known-offers file older than 7 days is deleted and
\* the known set starts empty; a file of 7 days or less is left as it is and
\* its ids are loaded; and the first fetch after a deletion makes every listed
\* id new, the ids of the deleted file included.
C6_CacheTTLReset ==
    /\ [][StartupStep =>
            IF knownExists /\ age > 7 * 86400
            THEN /\ ~knownExists'
                 /\ seen' = {}
                 /\ dropped' = Range(knownFile)
            ELSE /\ UNCHANGED <<knownExists, knownFile>>
                 /\ dropped' = {}
                 /\ seen' = IF knownExists THEN Range(knownFile) ELSE {}]_vars
    /\ [](dropped # {} => (pc = "fetch" /\ ~knownExists /\ seen = {}))
    /\ [][(FetchReturned /\ dropped # {}) =>
              /\ new' = offers'
              /\ dropped \cap offers' \subseteq new']_vars

\* The startup code has deleted an expired file that held ids; the first
\* fetch is about to run with an empty known set.
C6_Witness ==
    /\ pc = "fetch"
    /\ dropped # {}
    /\ ~knownExists
    /\ seen = {}

\* Python's str order on digit strings, stated position by position: a is a
\* proper prefix of b, or at the first position where they differ a has the
\* smaller digit.
TextBefore(a, b) ==
    \E k \in 0..Len(a) :
        /\ k <= Len(b)
        /\ \A i \in 1..k : a[i] = b[i]
        /\ \/ k = Len(a) /\ k < Len(b)
           \/ k < Len(a) /\ k < Len(b) /\ a[k + 1] < b[k + 1]

\* C7: after every save of the cycle that returned, the file holds exactly the
\* ids of the in-memory known set, the cycle's new ids and the old ones, each
\* once, in ascending str order.
C7_SortedPersistence ==
    (pc = "sleep" /\ writes > 0 /\ "store" \notin faults) =>
        /\ writes = 1
        /\ knownExists
        /\ Range(knownFile) = seen
        /\ new \subseteq Range(knownFile)
        /\ Len(knownFile) = Cardinality(seen)
        /\ \A i \in 1..Len(knownFile) : \A j \in 1..Len(knownFile) :
               i < j => TextBefore(knownFile[i], knownFile[j])

\* The file holds "42" before "7" after a cycle added an id to an older one.
C7_Witness ==
    /\ pc = "sleep"
    /\ writes = 1
    /\ "store" \notin faults
    /\ new # {}
    /\ seen # new
    /\ \E i \in 1..Len(knownFile) : \E j \in 1..Len(knownFile) :
           i < j /\ knownFile[i] = <<4, 2>> /\ knownFile[j] = <<7>>

\* C8: from the end of the startup code to the end of the process the known
\* set only grows, and the known-offers file is deleted by the startup code
\* only.
C8_KnownMonotonic ==
    [][/\ (pc # "boot" /\ pc' # "boot") => seen \subseteq seen'
       /\ (knownExists /\ ~knownExists') => pc = "boot"]_vars

\* A cycle added new ids to a known set that was not empty, and kept the old ones.
C8_Witness ==
    /\ pc = "sleep"
    /\ new # {}
    /\ new \subseteq seen
    /\ seen \ new # {}

\* An extraction, a render or a send of the running notify_new_offers is
\* recorded for the offer.
Processed(oid) ==
    \/ extracts[oid] > 0
    \/ renders[oid] > 0
    \/ oid \in sentOk
    \/ \E chat \in ChatIds : attempts[<<oid, chat>>] > 0

\* Every offer the poll loop has selected or processed was absent from the
\* known set at diff time (the known set does not change from the diff to the
\* return of notify_new_offers).
LoopDeliversOnlyUnknown ==
    pc \in {"extract", "send", "mark"} =>
        /\ new \cap seen = {}
        /\ pending \subseteq new
        /\ cur # None => cur \in new
        /\ \A oid \in OfferIds : Processed(oid) => oid \in new

\* C9 as claimed: the poll loop and the /start handler alike select an offer
\* for delivery only when its id is absent from the known set.
C9_Original ==
    /\ []LoopDeliversOnlyUnknown
    /\ [][(hpc \in AckPositions /\ hpc' = "send") => hpending' \cap seen = {}]_vars

\* C9 (amended): every offer the poll loop extracts, renders or sends was
\* absent from the known set at diff time; the /start handler is not bound by
\* the known set (it sends every currently listed offer to the chat).
C9_DeliveryOnlyOfUnknown == LoopDeliversOnlyUnknown

\* The loop sends a new offer while a known offer is listed too and left alone.
C9_Witness ==
    /\ pc = "send"
    /\ offers \cap seen # {}
    /\ cur \notin seen
    /\ Len(sendLog) > 0
    /\ \A oid \in seen : ~Processed(oid)

\* C10 as claimed: every id a cycle adds to the known set has been delivered,
\* to one subscriber at least.
C10_Original ==
    [][(pc = "mark" /\ pc' = "sleep") => (seen' \ seen) \subseteq sentOk]_vars

\* C10 (amended): every id the loop adds to the known set was new in the cycle
\* and was passed to a notify_new_offers call that has returned, with every
\* offer of the call dealt with: extracted once, or not at all when there was
\* no subscriber; only the ids that were rendered and sent to a subscriber
\* have been delivered.  What a save writes are ids of the known set.
C10_KnownMeansNotified ==
    [][/\ (pc # "boot" /\ pc' # "boot" /\ seen' # seen) =>
              /\ pc = "mark"
              /\ seen' \ seen = new
              /\ pending = {}
              /\ cur = None
              /\ \A oid \in new :
                     /\ extracts[oid] = IF subscribers = {} THEN 0 ELSE 1
                     /\ oid \in sentOk =>
                            /\ renders[oid] = 1
                            /\ \E chat \in subscribers : attempts[<<oid, chat>>] = 1
       /\ (pc # "boot" /\ knownFile' # knownFile) => Range(knownFile') \subseteq seen'
      ]_vars

\* The only new offer of a cycle failed to extract, and is in the known set
\* and in the file.
C10_Witness ==
    /\ pc = "sleep"
    /\ faults = {"extract"}
    /\ Cardinality(new) = 1
    /\ new \subseteq seen
    /\ writes = 1
    /\ new \subseteq Range(knownFile)

\* The lines of the file that hold the id.
Entries(lines, id) == {i \in 1..Len(lines) : lines[i] = id}

\* A step in which start() got past the subscription, to its first await.
SubscribeStep == hpc = "idle" /\ hpc' \in AckPositions

\* C11: a /start of a chat id that is in the subscriber file leaves the file
\* (and the snapshot a running notify_new_offers holds) as it was and differs
\* from a first /start in the acknowledgement only; after any /start the file
\* holds the chat id exactly once, and no id is ever in the file twice.
C11_SubscribeIdempotent ==
    /\ [][SubscribeStep =>
              /\ hpc' = "ack_known" <=> hchat' \in Range(subsFile)
              /\ hpc' = "ack_known" => UNCHANGED <<subsFile, subscribers>>
              /\ Cardinality(Entries(subsFile', hchat')) = 1]_vars
    /\ [](\A chat \in ChatIds : Cardinality(Entries(subsFile, chat)) <= 1)

\* A chat that was subscribed sent /start again and is being told so; the
\* file holds it once, next to the other subscriber.
C11_Witness ==
    /\ hpc = "ack_known"
    /\ Cardinality(Entries(subsFile, hchat)) = 1
    /\ Len(subsFile) = NumChats

C13_Original ==
    [][(SubscribeStep /\ hpc' = "ack_new") => subsFile' = Append(subsFile, hchat')]_vars

\* C13 (amended): a new subscription rewrites the whole file: it holds the
\* earlier ids and the new one, each once, in ascending str order, so the new
\* id is the last line only when it sorts after every earlier id.
C13_SubscriberStoreRewritten ==
    [][(SubscribeStep /\ hpc' = "ack_new") =>
          /\ hchat' \notin Range(subsFile)
          /\ Range(subsFile') = Range(subsFile) \cup {hchat'}
          /\ Len(subsFile') = Len(subsFile) + 1
          /\ \A i \in 1..Len(subsFile') : \A j \in 1..Len(subsFile') :
                 i < j => TextBefore(subsFile'[i], subsFile'[j])]_vars

\* Chat "12" has just subscribed and its id is the first line of the file,
\* before the id "5" of an earlier subscriber.
C13_Witness ==
    /\ hpc = "ack_new"
    /\ hchat = <<1, 2>>
    /\ Len(subsFile) >= 2
    /\ subsFile[1] = hchat
    /\ subsFile[2] = <<5>>

\* The last text of the sequence that is not "", or "" when there is none.
LastNonEmpty(texts) ==
    LET I == {i \in 1..Len(texts) : texts[i] # ""}
    IN  IF I = {} THEN "" ELSE texts[CHOOSE i \in I : \A j \in I : j <= i]

\* What the definition-list pass finds for the label on the page: the dd text
\* of the last dt/dd pair, by position, with that dt text and a dd text.
DlYield(pg, k) ==
    LastNonEmpty([n \in 1..Len(pg.dls) |->
        LET dl == pg.dls[n]
        IN  LastNonEmpty([i \in 1..Len(dl.dt) |->
                IF i <= Len(dl.dd) /\ dl.dt[i] = k THEN dl.dd[i] ELSE ""])])

\* What the table pass finds for the label on the page: the second cell of
\* the last two-cell row with that first cell and a text in the second.
TableYield(pg, k) ==
    LastNonEmpty([n \in 1..Len(pg.tables) |->
        LET rows == pg.tables[n]
        IN  LastNonEmpty([i \in 1..Len(rows) |->
                IF Len(rows[i]) = 2 /\ rows[i][1] = k THEN rows[i][2] ELSE ""])])

\* The text of the page's description element, "" without one.
DescYield(pg) == IF Len(pg.desc) > 0 THEN pg.desc[1] ELSE ""

\* The value the dict holds for the label, "" when the key is absent.
Value(d, k) == IF k \in DOMAIN d THEN d[k] ELSE ""

\* C14 as claimed: a label for which the definition-list pass and the table
\* pass both find a value has the table's value in the result.
C14_Original ==
    ppc = "done" =>
        \A k \in Labels :
            (DlYield(page, k) # "" /\ TableYield(page, k) # "") =>
                Value(data, k) = TableYield(page, k)

\* C14 (amended): the passes run in the order definition lists, tables,
\* description, and each stores the values it finds over what is there and
\* leaves every label for which it finds no value as it was (a key is never
\* removed and never holds ""): after the table pass a label has the table's
\* value when the table pass found one, else the definition list's; the
\* description pass then replaces the value of "Beschreibung", and of no other
\* label, when the description element has text.  So a label found by both
\* the definition-list and the table pass ends with the table's value, unless
\* it is "Beschreibung" and the description element has text.
C14_LastPassWins ==
    /\ [](\A k \in DOMAIN data : data[k] # "")
    /\ [](ppc = "table" => \A k \in Labels : Value(data, k) = DlYield(page, k))
    /\ [][(ppc = "table" /\ ppc' = "desc") =>
              \A k \in Labels :
                  Value(data', k) = IF TableYield(page, k) # ""
                                    THEN TableYield(page, k)
                                    ELSE Value(data, k)]_vars
    /\ [][(ppc = "desc" /\ ppc' = "done") =>
              \A k \in Labels :
                  Value(data', k) = IF k = "Beschreibung" /\ DescYield(page) # ""
                                    THEN DescYield(page)
                                    ELSE Value(data, k)]_vars
    /\ [](ppc = "done" =>
              /\ data = parse_offer_details(page)
              /\ \A k \in Labels :
                     (/\ DlYield(page, k) # ""
                      /\ TableYield(page, k) # ""
                      /\ ~(k = "Beschreibung" /\ DescYield(page) # "")) =>
                         Value(data, k) = TableYield(page, k))

\* "Zimmer" is "2" in the definition list and "3" in the table, and the
\* result holds "3"; "Beschreibung" has a value in the definition list and
\* the description element is there without text, and the result holds the
\* definition list's value.
C14_Witness ==
    /\ ppc = "done"
    /\ DlYield(page, "Zimmer") = "2"
    /\ TableYield(page, "Zimmer") = "3"
    /\ Value(data, "Zimmer") = "3"
    /\ DlYield(page, "Beschreibung") = "3"
    /\ page.desc = <<"">>
    /\ Value(data, "Beschreibung") = "3"

\* C15: a cycle whose fetch_offers() raises ends there: no extraction, render
\* or send, the known set, the known-offers file and the subscriber file as
\* they were and no file opened for writing; after the sleep the next cycle
\* starts as any cycle does, with the same known set.
C15_FetchFailureAbortsCycle ==
    /\ [][(pc = "fetch" /\ "fetch" \in faults') =>
              /\ pc' = "sleep"
              /\ NothingNotified'
              /\ writes' = 0
              /\ UNCHANGED <<seen, knownExists, knownFile, subsFile>>]_vars
    /\ []("fetch" \in faults =>
              /\ pc = "sleep"
              /\ faults = {"fetch"}
              /\ NothingNotified
              /\ writes = 0)
    /\ [][(pc = "sleep" /\ "fetch" \in faults /\ pc' \notin {"sleep", "boot"}) =>
              /\ pc' = "fetch"
              /\ faults' = {}
              /\ NothingNotified'
              /\ UNCHANGED <<seen, knownExists, knownFile>>]_vars

\* The loop sleeps after a fetch that failed, with the known set it had, which
\* is what the file holds.
C15_Witness ==
    /\ pc = "sleep"
    /\ faults = {"fetch"}
    /\ seen # {}
    /\ knownExists
    /\ Range(knownFile) = seen
    /\ NothingNotified

\* The ids the known-offers file holds (no file: none).
KnownOnDisk == IF knownExists THEN Range(knownFile) ELSE {}

\* C16: a save of the known-offers file that raises leaves the known set with
\* the cycle's new ids in it and only the file behind; as long as the process
\* runs, the ids that are in memory only stay in the known set, are never new
\* again and are not extracted, rendered or sent again.
C16_StoreFailureKeepsMemory ==
    /\ [][(pc = "mark" /\ "store" \in faults') =>
              /\ pc' = "sleep"
              /\ seen' = seen \cup new
              /\ KnownOnDisk' \subseteq seen'
              /\ KnownOnDisk' # seen']_vars
    /\ [][(pc # "boot" /\ pc' # "boot") => (seen \ KnownOnDisk) \subseteq seen']_vars
    /\ [](pc \in {"extract", "send", "mark"} =>
              \A oid \in seen \ KnownOnDisk : oid \notin new /\ ~Processed(oid))

\* A later cycle without any failure fetched an id that is in the known set
\* and not in the file, and found nothing new.
C16_Witness ==
    /\ pc = "sleep"
    /\ faults = {}
    /\ offers \cap (seen \ KnownOnDisk) # {}
    /\ new = {}
    /\ NothingNotified

\* C17: the known-offers file is written only when notify_new_offers has
\* returned, with no offer of the cycle left to do; while offers are being
\* extracted and sent the file holds none of the cycle's new ids, so a process
\* interrupted then leaves a file without them: the next process starts with
\* the known set of the file, and at its first fetch the offers that
\* subscribers had received before the interruption are new again, if they
\* are still listed, and go through notify_new_offers again.
C17_AtLeastOnceAcrossCrashes ==
    /\ [](pc \in {"extract", "send"} => KnownOnDisk \cap new = {})
    /\ [][(knownFile' # knownFile \/ knownExists' # knownExists) =>
              \/ pc = "boot"
              \/ pc = "mark" /\ pending = {} /\ cur = None]_vars
    /\ [][(pc \in {"extract", "send", "mark"} /\ pc' = "boot") =>
              /\ UNCHANGED <<knownExists, knownFile>>
              /\ interrupted' = sentOk
              /\ KnownOnDisk' \cap new = {}]_vars
    /\ [](interrupted # {} => pc \in {"boot", "fetch", "dead"})
    /\ [](interrupted \cap (KnownOnDisk \cup seen) = {})
    /\ [][(FetchReturned /\ interrupted # {}) =>
              /\ interrupted \cap offers' \subseteq new'
              /\ subscribers' # {} => interrupted \cap offers' \subseteq pending']_vars

\* A process was interrupted after a subscriber had received an offer; the
\* next process has loaded the file, which does not hold the offer, and is
\* about to fetch.
C17_Witness ==
    /\ pc = "fetch"
    /\ interrupted # {}
    /\ knownExists
    /\ seen = Range(knownFile)
    /\ subsFile # <<>>

\* C18: within one process the loop makes at most one send attempt per offer
\* and subscriber.  The attempts of a notify_new_offers call are on record
\* until the call's offers are marked seen: an attempt is made only for the
\* offer being sent, which is not in the known set, to a subscriber with no
\* attempt on record for that offer, failed or not; a record is dropped only
\* when its offer enters the known set or the process ends; and the known set
\* of a process never loses an id, so that no later cycle sends the offer.
C18_NoDeliveryRetry ==
    /\ [](\A p \in OfferIds \X ChatIds :
              /\ attempts[p] <= 1
              /\ attempts[p] > 0 =>
                     /\ pc \in {"extract", "send", "mark"}
                     /\ p[1] \in new \ seen
                     /\ p[2] \in subscribers
                     /\ p[1] = cur => p[2] \notin subsLeft)
    /\ [][attempts' # attempts =>
              \A p \in OfferIds \X ChatIds :
                  attempts'[p] # attempts[p] =>
                      \/ /\ pc = "send"
                         /\ p[1] = cur
                         /\ p[1] \notin seen
                         /\ attempts[p] = 0
                         /\ attempts'[p] = 1
                      \/ /\ attempts'[p] = 0
                         /\ pc' = "boot" \/ p[1] \in seen']_vars
    /\ [][(pc # "boot" /\ pc' # "boot") => seen \subseteq seen']_vars

\* Every send of the cycle failed, and notify_new_offers has returned with
\* one attempt per new offer and subscriber.
C18_Witness ==
    /\ pc = "mark"
    /\ sentOk = {}
    /\ Cardinality(new) = NumOffers
    /\ Cardinality(subscribers) = NumChats
    /\ Len(sendLog) = NumChats
    /\ \A i \in 1..Len(sendLog) : ~sendLog[i]
    /\ \A oid \in new : \A chat \in subscribers : attempts[<<oid, chat>>] = 1

\* A step of the loop's task (the handler's steps leave pc alone).
LoopMoves == pc' # pc /\ pc' # "boot"

\* C19: once fetch_offers() has returned new offers and load_subscribers()
\* has returned, the cycle reaches seen.update(new) whatever happens to the
\* offers (an extraction raises, every send raises, or there is no subscriber
\* and nothing is extracted at all): every fetched id is then in the known
\* set, and in the file when the save returns; and no id of the known set is
\* extracted, rendered, sent or due for it as long as the process runs.
C19_UnconditionalMarkSeen ==
    /\ [][(FetchReturned /\ new' # {} /\ "load" \notin faults') =>
              /\ pc' \in {"extract", "mark"}
              /\ pc' = "mark" <=> subscribers' = {}]_vars
    /\ [][(pc \in {"extract", "send"} /\ LoopMoves) => pc' \in {"extract", "send", "mark"}]_vars
    /\ [](pc = "mark" =>
              /\ new # {}
              /\ new \subseteq offers
              /\ subscribers = {} => \A oid \in new : ~Processed(oid))
    /\ [][(pc = "mark" /\ LoopMoves) =>
              /\ pc' = "sleep"
              /\ offers \subseteq seen'
              /\ "store" \notin faults' => (knownExists' /\ offers \subseteq Range(knownFile'))]_vars
    /\ [](\A oid \in seen : ~Processed(oid) /\ oid \notin pending /\ oid # cur)
    /\ [][(pc # "boot" /\ pc' # "boot") => \A oid \in seen : oid \in seen']_vars

\* Of the new offers of a cycle one failed to extract and a send of the
\* other failed; all are in the known set and in the file.
C19_Witness ==
    /\ pc = "sleep"
    /\ faults = {"extract", "send"}
    /\ Cardinality(new) = NumOffers
    /\ offers \subseteq seen
    /\ writes = 1
    /\ Range(knownFile) = seen

\* C20: the known set and the ids of the known-offers file (none without a
\* file) agree when the startup code has run, after a TTL reset too; from
\* then on every step of the process keeps them in agreement, except a save
\* that raises; and every save that returns brings them into agreement.  So
\* they agree in every sleep of a process in which no save has raised.
C20_MemoryDiskAgreement ==
    /\ [][StartupStep => seen' = KnownOnDisk']_vars
    /\ [][(pc \notin {"boot", "dead"} /\ pc' # "boot" /\ seen = KnownOnDisk) =>
              \/ seen' = KnownOnDisk'
              \/ pc = "mark" /\ "store" \in faults']_vars
    /\ [][(pc = "mark" /\ LoopMoves /\ "store" \notin faults') => seen' = KnownOnDisk']_vars
    /\ []((pc = "sleep" /\ writes > 0 /\ "store" \notin faults) => seen = KnownOnDisk)

\* The loop sleeps after a cycle that added new ids to those loaded from the
\* file, and the file holds the known set.
C20_Witness ==
    /\ pc = "sleep"
    /\ faults = {}
    /\ new # {}
    /\ seen \ new # {}
    /\ knownExists
    /\ KnownOnDisk = seen
    /\ Len(knownFile) = Cardinality(seen)

====
